---- MODULE Spec2Model ----
(***************************************************************************)
(* A model of t-rex (package trex, trex.go): the regular expression        *)
(* compiler `compile` and the backtracking matcher `Match`.                *)
(*                                                                         *)
(* Bytes are their numeric codes.  Indices are Go's 0-based indices; the   *)
(* accessors below translate to TLA+'s 1-based sequences.  A Go run-time   *)
(* panic (index or slice bounds out of range) is an outcome of its own:    *)
(* "panic", next to a returned error and a returned value.                 *)
(***************************************************************************)
EXTENDS Integers, Sequences, FiniteSets, TLC

VARIABLES expr, cs, text, result

vars == <<expr, cs, text, result>>

(***************************************************************************)
(* Program constants (trex.go:85-90).                                      *)
(***************************************************************************)
MaxNodes == 64
MaxBufLen == 128
MaxQuant == 1024
MaxPlus == 40000

(***************************************************************************)
(* The byte values of the character literals the code compares with.      *)
(***************************************************************************)
chNul == 0
chTab == 9
chLF == 10
chVT == 11
chFF == 12
chCR == 13
chSpace == 32
chDollar == 36
chStar == 42
chPlus == 43
chComma == 44
chMinus == 45
chDot == 46
ch0 == 48
ch9 == 57
chQMark == 63
chUpA == 65
chUpD == 68
chUpS == 83
chUpW == 87
chUpZ == 90
chLBracket == 91
chBackslash == 92
chRBracket == 93
chCaret == 94
chUnderscore == 95
ch_a == 97
ch_b == 98
ch_d == 100
ch_s == 115
ch_w == 119
ch_z == 122
chLBrace == 123
chRBrace == 125

(***************************************************************************)
(* Bounds of the explored inputs.                                          *)
(***************************************************************************)
MaxPatLen == 4
MaxClassLen == 4
MaxQuantLen == 4
MaxTextLen == 2

(***************************************************************************)
(* Go's int on a 64-bit target, as four 16-bit limbs, least significant    *)
(* first.  val = 10*val + digit wraps modulo 2^64 (trex.go:295, 321).      *)
(***************************************************************************)
LimbBase == 65536
LimbSign == 32768

WordZero == <<0, 0, 0, 0>>

WordOf(k) == <<k, 0, 0, 0>>

MulAdd10(w, d) ==
    LET c1 == 10 * w[1] + d
        c2 == 10 * w[2] + (c1 \div LimbBase)
        c3 == 10 * w[3] + (c2 \div LimbBase)
        c4 == 10 * w[4] + (c3 \div LimbBase)
    IN  <<c1 % LimbBase, c2 % LimbBase, c3 % LimbBase, c4 % LimbBase>>

WordNeg(w) == w[4] >= LimbSign

\* w > k for a small non-negative k (signed comparison)
WordGreater(w, k) ==
    /\ ~WordNeg(w)
    /\ (w[4] > 0 \/ w[3] > 0 \/ w[2] > 0 \/ w[1] > k)

RECURSIVE LimbsLess(_, _, _)
LimbsLess(a, b, k) ==
    IF k = 0 THEN FALSE
    ELSE IF a[k] # b[k] THEN a[k] < b[k]
    ELSE LimbsLess(a, b, k - 1)

\* a < b as signed 64-bit integers
WordLess(a, b) ==
    IF WordNeg(a) # WordNeg(b) THEN WordNeg(a) ELSE LimbsLess(a, b, 4)

(***************************************************************************)
(* The int a node's mn field holds.  The values compile stores are at most *)
(* MaxQuant or negative; the matcher only counts them down once per input  *)
(* byte and compares them with 0 and with a count of input bytes, so every *)
(* negative value below -NegFloor behaves as -NegFloor does.               *)
(***************************************************************************)
NegFloor == 1000000

WordInt(w) ==
    IF ~WordNeg(w) THEN
        (IF w[4] = 0 /\ w[3] = 0 /\ w[2] < 16 THEN w[2] * LimbBase + w[1]
         ELSE NegFloor)
    ELSE IF w[4] = LimbBase - 1 /\ w[3] = LimbBase - 1 /\ w[2] = LimbBase - 1
         THEN w[1] - LimbBase
    ELSE 0 - NegFloor

(***************************************************************************)
(* isMeta, isMetaOrEsc (trex.go:349-355)                                   *)
(***************************************************************************)
isMeta(c) == c \in {ch_s, chUpS, ch_w, chUpW, ch_d, chUpD}

isMetaOrEsc(c) == c = chBackslash \/ isMeta(c)

(***************************************************************************)
(* The byte predicates (trex.go:536-573)                                   *)
(***************************************************************************)
matchDot(b) == b # chLF /\ b # chCR

matchDigit(b) == b >= ch0 /\ b <= ch9

matchAlpha(b) == (b >= ch_a /\ b <= ch_z) \/ (b >= chUpA /\ b <= chUpZ)

matchAlphaNum(b) == b = chUnderscore \/ matchAlpha(b) \/ matchDigit(b)

matchSpace(b) == b \in {chSpace, chTab, chLF, chCR, chFF, chVT}

matchMetaChar(b, mb) ==
    CASE mb = ch_d -> matchDigit(b)
      [] mb = chUpD -> ~matchDigit(b)
      [] mb = ch_w -> matchAlphaNum(b)
      [] mb = chUpW -> ~matchAlphaNum(b)
      [] mb = ch_s -> matchSpace(b)
      [] mb = chUpS -> ~matchSpace(b)
      [] OTHER -> b = mb

(***************************************************************************)
(* Nodes (trex.go:92-98).  typ is the name of the Type constant; ccl is    *)
(* the offset idx of the slice re.buffer[idx:], -1 for a nil slice; mn is  *)
(* the pair mn[0], mn[1].  A fresh array holds zero nodes, of type None.   *)
(***************************************************************************)
ZeroNode == [typ |-> "None", ch |-> 0, ccl |-> -1, mn |-> <<0, 0>>]

TypNode(t) == [ZeroNode EXCEPT !.typ = t]

CharNode(c) == [ZeroNode EXCEPT !.typ = "Char", !.ch = c]

ClassNode(t, off) == [ZeroNode EXCEPT !.typ = t, !.ccl = off]

QuantNode(t, mn0, mn1) == [ZeroNode EXCEPT !.typ = t, !.mn = <<mn0, mn1>>]

(***************************************************************************)
(* compile (trex.go:109-347), one iteration of its loop at a time.        *)
(*                                                                         *)
(* The compiler's state: pc ("start", "loop", "class", "ok", "error",     *)
(* "panic"),                                                              *)
(* the loop variables i, j, idx and quable, the nodes written so far      *)
(* (re.nodes[0..j-1]; the rest of the array is zero), the bytes written   *)
(* to re.buffer so far (re.buffer[0..idx-1]; the rest is zero), the kind  *)
(* of the error returned, the kind of index a panic was raised for, and   *)
(* tok, the value of i at the start of the current iteration.            *)
(***************************************************************************)
E(e, k) == e[k + 1]

StartState ==
    [pc |-> "start", i |-> 0, j |-> 0, idx |-> 0, quable |-> FALSE,
     nodes |-> <<>>, buf |-> <<>>, err |-> "", why |-> "", tok |-> 0]

Fail(s, kind) == [s EXCEPT !.pc = "error", !.err = kind]

Crash(s, why) == [s EXCEPT !.pc = "panic", !.why = why]

\* re.nodes[j] = nd; quable = q; the loop's post statement i, j = i+1, j+1
Emit(s, i, nd, q) ==
    [s EXCEPT !.i = i + 1, !.j = s.j + 1, !.nodes = Append(s.nodes, nd),
              !.quable = q]

\* re.buffer[idx] = b; idx++
Put(s, b) ==
    IF s.pc \in {"error", "panic"} THEN s
    ELSE IF s.idx >= MaxBufLen THEN Crash(s, "buffer")
    ELSE [s EXCEPT !.buf = Append(s.buf, b), !.idx = s.idx + 1]

\* SimpleQuant without the test of quable
SimpleQuantUnchecked(e, s, greedy, lazy) ==
    LET ii == s.i + 1
    IN  IF ii < Len(e) /\ E(e, ii) = chQMark
        THEN Emit(s, ii, TypNode(lazy), FALSE)
        ELSE Emit(s, s.i, TypNode(greedy), FALSE)

\* cases '*', '+', '?' (trex.go:138-172)
SimpleQuant(e, s, greedy, lazy) ==
    LET n == Len(e)
        ii == s.i + 1
    IN  IF ~s.quable THEN Fail(s, "NonQuantifiable")
        ELSE IF ii < n /\ E(e, ii) = chQMark
             THEN Emit(s, ii, TypNode(lazy), FALSE)
             ELSE Emit(s, s.i, TypNode(greedy), FALSE)

\* case '\\' (trex.go:174-196)
Escape(e, s) ==
    LET n == Len(e)
        i == s.i + 1
    IN  IF i >= n THEN Fail([s EXCEPT !.quable = TRUE], "DanglingEscape")
        ELSE LET c == E(e, i)
                 nd == CASE c = ch_d -> TypNode("Digit")
                         [] c = chUpD -> TypNode("NDigit")
                         [] c = ch_w -> TypNode("Alpha")
                         [] c = chUpW -> TypNode("NAlpha")
                         [] c = ch_s -> TypNode("Space")
                         [] c = chUpS -> TypNode("NSpace")
                         [] OTHER -> CharNode(c)
             IN  Emit(s, i, nd, TRUE)

(***************************************************************************)
(* The class copy loop (trex.go:211-274), an iteration at a time.  While   *)
(* it runs pc is "class", i is its loop variable, and the node of the     *)
(* class is written (re.nodes[j], lines 204-208) with j not yet advanced. *)
(* ClassRange is the "check range" part of the body (lines 248-273).      *)
(* `continue` and the end of the body lead to the post statement i++.     *)
(***************************************************************************)
Continue(s, i) == [s EXCEPT !.i = i + 1]

ClassRange(e, s) ==
    LET n == Len(e)
        i == s.i
    IN  IF i + 1 >= n THEN Crash(s, "expr")
        ELSE IF E(e, i + 1) # chMinus \/ i + 2 >= n \/ E(e, i + 2) = chRBracket
             THEN Continue(s, i)
        ELSE LET rmax == E(e, i + 2) = chBackslash
             IN  IF rmax /\ (i + 3 >= n \/ isMeta(E(e, i + 3)))
                 THEN Continue(s, i)
                 ELSE LET c == IF rmax THEN E(e, i + 3) ELSE E(e, i + 2)
                      IN  IF c < E(e, i) THEN Fail(s, "BadRange")
                          ELSE IF s.idx > MaxBufLen - 2
                               THEN Fail(s, "BufferOverflow")
                          ELSE LET t == Put(s, E(e, i + 1))
                               IN  IF t.pc # "class" THEN t
                                   ELSE Continue(t, i + 1)

\* lines 212-246, then the range check
ClassBody(e, s) ==
    LET n == Len(e)
        i == s.i
        ii == i + 1
    IN  IF E(e, i) = chBackslash THEN
            IF ii >= n THEN Fail(s, "DanglingEscape")
            ELSE IF isMetaOrEsc(E(e, ii)) THEN
                IF s.idx > MaxBufLen - 3 THEN Fail(s, "BufferOverflow")
                ELSE LET t == Put(Put([s EXCEPT !.i = ii], E(e, i)), E(e, ii))
                     IN  IF t.pc # "class" THEN t
                         ELSE IF ii + 1 >= n THEN Crash(t, "expr")
                         ELSE IF E(e, ii + 1) # chBackslash THEN Continue(t, ii)
                         ELSE ClassRange(e, t)
            ELSE IF s.idx > MaxBufLen - 2 THEN Fail(s, "BufferOverflow")
            ELSE LET t == Put([s EXCEPT !.i = ii], E(e, ii))
                 IN  IF t.pc # "class" THEN t ELSE ClassRange(e, t)
        ELSE IF s.idx > MaxBufLen - 2 THEN Fail(s, "BufferOverflow")
        ELSE LET t == Put(s, E(e, i))
             IN  IF t.pc # "class" THEN t ELSE ClassRange(e, t)

\* the condition of the class copy loop (line 211)
ClassCond(e, s) == s.i < Len(e) /\ E(e, s.i) # chRBracket

\* case '[' up to the loop (trex.go:199-211)
ClassOpen(e, s) ==
    LET ii == s.i + 1
        neg == ii < Len(e) /\ E(e, ii) = chCaret
        typ == IF neg THEN "NClass" ELSE "Class"
        i0 == IF neg THEN ii ELSE s.i
    IN  [s EXCEPT !.pc = "class", !.quable = TRUE, !.i = i0 + 1,
                  !.nodes = Append(s.nodes, ClassNode(typ, s.idx))]

\* after the loop (trex.go:276-281), and the outer loop's post statement
ClassClose(e, s) ==
    IF s.i >= Len(e) THEN Crash(s, "expr")
    ELSE IF E(e, s.i) # chRBracket THEN Fail(s, "UnterminatedClass")
    ELSE LET u == Put(s, chNul)
         IN  IF u.pc # "class" THEN u
             ELSE [u EXCEPT !.pc = "loop", !.i = u.i + 1, !.j = u.j + 1]

(***************************************************************************)
(* case '{' (trex.go:283-335).  MinDigits is the loop of lines 291-301 and *)
(* MaxDigits the loop of lines 317-323; each yields the failure, or the   *)
(* value read and the index it stopped at.                                *)
(***************************************************************************)
IsDigit(c) == c >= ch0 /\ c <= ch9

RECURSIVE MinDigits(_, _, _)
MinDigits(e, i, val) ==
    LET n == Len(e)
    IN  IF i >= n \/ ~IsDigit(E(e, i)) THEN [out |-> "error"]
        ELSE LET v == MulAdd10(val, E(e, i) - ch0)
             IN  IF i + 1 >= n THEN [out |-> "panic"]
                 ELSE IF E(e, i + 1) = chComma \/ E(e, i + 1) = chRBrace
                      THEN [out |-> "ok", val |-> v, i |-> i + 1]
                 ELSE MinDigits(e, i + 1, v)

RECURSIVE MaxDigits(_, _, _)
MaxDigits(e, i, val) ==
    LET n == Len(e)
    IN  IF i >= n THEN [out |-> "panic"]
        ELSE IF E(e, i) = chRBrace THEN [out |-> "ok", val |-> val, i |-> i]
        ELSE IF ~IsDigit(E(e, i)) THEN [out |-> "error"]
        ELSE MaxDigits(e, i + 1, MulAdd10(val, E(e, i) - ch0))

\* lines 329-335: the lazy suffix, and the node
QuantEmit(e, s, i, mn0, val) ==
    LET ii == i + 1
    IN  IF ii < Len(e) /\ E(e, ii) = chQMark
        THEN Emit(s, ii, QuantNode("LQuant", WordInt(mn0), WordInt(val)), FALSE)
        ELSE Emit(s, i, QuantNode("Quant", WordInt(mn0), WordInt(val)), FALSE)

Quantifier(e, s0) ==
    LET n == Len(e)
        s == [s0 EXCEPT !.quable = FALSE]
    IN  IF ~s0.quable THEN Fail(s0, "NonQuantifiable")
        ELSE LET m == MinDigits(e, s.i + 1, WordZero)
             IN  IF m.out = "error" THEN Fail(s, "BadQuantifier")
                 ELSE IF m.out = "panic" THEN Crash(s, "expr")
                 ELSE IF WordGreater(m.val, MaxQuant) THEN Fail(s, "BadQuantifier")
                 ELSE IF E(e, m.i) # chComma THEN QuantEmit(e, s, m.i, m.val, m.val)
                 ELSE IF m.i + 1 >= n THEN Fail(s, "BadQuantifier")
                 ELSE IF E(e, m.i + 1) = chRBrace
                      THEN QuantEmit(e, s, m.i + 1, m.val, WordOf(MaxQuant))
                 ELSE LET x == MaxDigits(e, m.i + 1, WordZero)
                      IN  IF x.out = "error" THEN Fail(s, "BadQuantifier")
                          ELSE IF x.out = "panic" THEN Crash(s, "expr")
                          ELSE IF WordGreater(x.val, MaxQuant)
                                  \/ WordLess(x.val, m.val)
                               THEN Fail(s, "BadQuantifier")
                          ELSE QuantEmit(e, s, x.i, m.val, x.val)

\* The body of the loop for the byte at i, and its post statement
\* (trex.go:123-343).
Step(e, s0) ==
    LET s == [s0 EXCEPT !.tok = s0.i]
        c == E(e, s.i)
    IN  CASE c = chCaret -> Emit(s, s.i, TypNode("Begin"), FALSE)
          [] c = chDollar -> Emit(s, s.i, TypNode("End"), FALSE)
          [] c = chDot -> Emit(s, s.i, TypNode("Dot"), TRUE)
          [] c = chStar -> SimpleQuant(e, s, "Star", "LStar")
          [] c = chPlus -> SimpleQuant(e, s, "Plus", "LPlus")
          [] c = chQMark -> SimpleQuant(e, s, "QMark", "LQMark")
          [] c = chBackslash -> Escape(e, s)
          [] c = chLBracket -> ClassOpen(e, s)
          [] c = chLBrace -> Quantifier(e, s)
          [] OTHER -> Emit(s, s.i, CharNode(c), TRUE)

\* The loop condition (trex.go:123)
LoopCond(e, s) == s.i < Len(e) /\ s.j + 1 < MaxNodes

\* compile as a whole: from a state of the loops to the state it returns in
RECURSIVE RunLoop(_, _)
RunLoop(e, s) ==
    IF s.pc = "loop" THEN
        (IF LoopCond(e, s) THEN RunLoop(e, Step(e, s))
         ELSE [s EXCEPT !.pc = "ok"])
    ELSE IF s.pc = "class" THEN
        (IF ClassCond(e, s) THEN RunLoop(e, ClassBody(e, s))
         ELSE RunLoop(e, ClassClose(e, s)))
    ELSE s

Enter(e, s) ==
    IF Len(e) = 0 THEN Fail(s, "EmptyPattern") ELSE [s EXCEPT !.pc = "loop"]

compile(e) == RunLoop(e, Enter(e, StartState))

(***************************************************************************)
(* The compiled Regexp (trex.go:100-103) the matcher reads: the array of   *)
(* MaxNodes nodes and the buffer of MaxBufLen bytes, both zero beyond     *)
(* what compile wrote.  An index outside the array is a panic, shown by   *)
(* the accessors as -1.                                                    *)
(***************************************************************************)
NodeAt(re, k) == IF k < Len(re.nodes) THEN re.nodes[k + 1] ELSE ZeroNode

BufAt(re, k) == IF k < Len(re.buf) THEN re.buf[k + 1] ELSE chNul

\* str[k] for the slice str = re.buffer[pos:end]
StrAt(re, pos, end, k) ==
    IF pos + k < end THEN BufAt(re, pos + k) ELSE -1

\* bytes.IndexByte(re.buffer[off:], 0) (trex.go:490)
IndexNul(re, off) ==
    LET Z == {k \in off..(Len(re.buf) - 1) : BufAt(re, k) = chNul}
    IN  IF Z # {} THEN (CHOOSE k \in Z : \A m \in Z : k <= m) - off
        ELSE IF Len(re.buf) < MaxBufLen /\ off <= Len(re.buf)
             THEN Len(re.buf) - off
        ELSE -1

Tri(b) == IF b THEN "true" ELSE "false"

(***************************************************************************)
(* matchCharClass (trex.go:487-534).  The loop, with str = buffer[pos:end] *)
(* and txt = buffer[off:]; the result is "true", "false" or "panic".      *)
(***************************************************************************)
RECURSIVE ClassLoop(_, _, _, _, _, _)

\* lines 513-531, after an element has been passed
ClassRangeTest(re, b, off, pos, end, i) ==
    LET s0 == StrAt(re, pos, end, 0)
        s1 == StrAt(re, pos, end, 1)
        s2 == StrAt(re, pos, end, 2)
    IN  IF s0 < 0 THEN "panic"
        ELSE IF s0 # chMinus THEN ClassLoop(re, b, off, pos, end, i)
        ELSE IF s1 < 0 THEN "panic"
        ELSE IF s1 = chNul THEN ClassLoop(re, b, off, pos, end, i)
        ELSE IF s1 = chBackslash /\ s2 < 0 THEN "panic"
        ELSE IF s1 = chBackslash /\ isMeta(s2)
             THEN ClassLoop(re, b, off, pos, end, i)
        ELSE LET rmax == IF s1 = chBackslash THEN s2 ELSE s1
             IN  IF i - 1 < 0 \/ off + i - 1 >= MaxBufLen THEN "panic"
                 ELSE IF b >= BufAt(re, off + i - 1) /\ b <= rmax THEN "true"
                 ELSE ClassLoop(re, b, off, pos + 1, end, i + 1)

ClassLoop(re, b, off, pos, end, i) ==
    LET s0 == StrAt(re, pos, end, 0)
        s1 == StrAt(re, pos, end, 1)
    IN  IF s0 < 0 THEN "panic"
        ELSE IF s0 = chNul THEN "false"
        ELSE IF s0 = chBackslash THEN
            IF s1 < 0 THEN "panic"
            ELSE IF matchMetaChar(b, s1) THEN "true"
            ELSE IF pos + 2 > end THEN "panic"
            ELSE IF StrAt(re, pos + 2, end, 0) < 0 THEN "panic"
            ELSE IF isMeta(StrAt(re, pos + 2, end, 0))
                 THEN ClassLoop(re, b, off, pos + 2, end, i + 2)
            ELSE ClassRangeTest(re, b, off, pos + 2, end, i + 2)
        ELSE IF s0 = b THEN "true"
        ELSE ClassRangeTest(re, b, off, pos + 1, end, i + 1)

matchCharClass(re, b, off) ==
    LET k == IndexNul(re, off)
        end == IF k > 0 THEN off + k + 1 ELSE MaxBufLen
    IN  ClassLoop(re, b, off, off, end, 0)

Negate(r) == IF r = "panic" THEN r ELSE Tri(r = "false")

\* matchOne (trex.go:461-485)
matchOne(re, nd, b) ==
    CASE nd.typ = "Char" -> Tri(nd.ch = b)
      [] nd.typ = "Dot" -> Tri(matchDot(b))
      [] nd.typ = "Class" -> matchCharClass(re, b, nd.ccl)
      [] nd.typ = "NClass" -> Negate(matchCharClass(re, b, nd.ccl))
      [] nd.typ = "Digit" -> Tri(matchDigit(b))
      [] nd.typ = "NDigit" -> Tri(~matchDigit(b))
      [] nd.typ = "Alpha" -> Tri(matchAlphaNum(b))
      [] nd.typ = "NAlpha" -> Tri(~matchAlphaNum(b))
      [] nd.typ = "Space" -> Tri(matchSpace(b))
      [] nd.typ = "NSpace" -> Tri(~matchSpace(b))
      [] OTHER -> "false"

(***************************************************************************)
(* match, matchQuant, matchLQuant (trex.go:377-459).  The slice nodes is   *)
(* re.nodes[p:], and txt is the rest of the input, a sequence.  Results   *)
(* are "true", "false" and "panic"; a panic ends the whole call.          *)
(***************************************************************************)
Drop(txt, k) == SubSeq(txt, k + 1, Len(txt))

IsGreedy(t) == t \in {"QMark", "Quant", "Star", "Plus"}

IsLazy(t) == t \in {"LQMark", "LQuant", "LStar", "LPlus"}

\* the min and max that match passes for a quantifier node (lines 387-404)
QuantMin(nd) ==
    CASE nd.typ \in {"QMark", "LQMark", "Star", "LStar"} -> 0
      [] nd.typ \in {"Plus", "LPlus"} -> 1
      [] OTHER -> nd.mn[1]

QuantMax(nd) ==
    CASE nd.typ \in {"QMark", "LQMark"} -> 1
      [] nd.typ \in {"Star", "LStar", "Plus", "LPlus"} -> MaxPlus
      [] OTHER -> nd.mn[2]

\* the first loop of matchQuant (lines 417-420): the count i it ends with,
\* or -1 for a panic inside matchOne
RECURSIVE EatGreedy(_, _, _, _, _)
EatGreedy(re, nd, txt, i, max) ==
    IF max = 0 \/ i >= Len(txt) THEN i
    ELSE LET r == matchOne(re, nd, txt[i + 1])
         IN  IF r = "panic" THEN -1
             ELSE IF r = "true" THEN EatGreedy(re, nd, txt, i + 1, max - 1)
             ELSE i

\* the first loop of matchLQuant (lines 436-439): the i and min it ends with
RECURSIVE EatLazy(_, _, _, _, _)
EatLazy(re, nd, txt, i, min) ==
    IF min = 0 \/ i >= Len(txt) THEN [out |-> "ok", i |-> i, min |-> min]
    ELSE LET r == matchOne(re, nd, txt[i + 1])
         IN  IF r = "panic" THEN [out |-> "panic"]
             ELSE IF r = "true" THEN EatLazy(re, nd, txt, i + 1, min - 1)
             ELSE [out |-> "ok", i |-> i, min |-> min]

RECURSIVE match(_, _, _)
RECURSIVE GiveBack(_, _, _, _, _)
RECURSIVE Extend(_, _, _, _)

\* the second loop of matchQuant (lines 423-428)
GiveBack(re, p, txt, i, min) ==
    IF i < min THEN "false"
    ELSE IF i < 0 \/ i > Len(txt) THEN "panic"
    ELSE LET r == match(re, p + 2, Drop(txt, i))
         IN  IF r # "false" THEN r ELSE GiveBack(re, p, txt, i - 1, min)

matchQuant(re, p, txt, min, max) ==
    LET i == EatGreedy(re, NodeAt(re, p), txt, 0, max)
    IN  IF i < 0 THEN "panic"
        ELSE IF p + 2 > MaxNodes THEN "panic"
        ELSE GiveBack(re, p, txt, i, min)

\* the second loop of matchLQuant (lines 446-456)
Extend(re, p, txt, max) ==
    LET r == match(re, p + 2, txt)
    IN  IF r # "false" THEN r
        ELSE IF max - 1 = 0 \/ Len(txt) = 0 THEN "false"
        ELSE LET o == matchOne(re, NodeAt(re, p), txt[1])
             IN  IF o # "true" THEN o
                 ELSE Extend(re, p, Tail(txt), max - 1)

matchLQuant(re, p, txt, min, max) ==
    LET m == EatLazy(re, NodeAt(re, p), txt, 0, min)
    IN  IF m.out = "panic" THEN "panic"
        ELSE IF m.min # 0 THEN "false"
        ELSE IF p + 2 > MaxNodes THEN "panic"
        ELSE Extend(re, p, Drop(txt, m.i), max - min + 1)

match(re, p, txt) ==
    IF p >= MaxNodes THEN "panic"
    ELSE IF NodeAt(re, p).typ = "None" THEN "true"
    ELSE IF p + 1 >= MaxNodes THEN "panic"
    ELSE LET nd == NodeAt(re, p)
             q == NodeAt(re, p + 1)
         IN  IF nd.typ = "End" /\ q.typ = "None" THEN Tri(Len(txt) = 0)
             ELSE IF IsGreedy(q.typ)
                  THEN matchQuant(re, p, txt, QuantMin(q), QuantMax(q))
             ELSE IF IsLazy(q.typ)
                  THEN matchLQuant(re, p, txt, QuantMin(q), QuantMax(q))
             ELSE IF Len(txt) = 0 THEN "false"
             ELSE LET o == matchOne(re, nd, txt[1])
                  IN  IF o # "true" THEN o
                      ELSE match(re, p + 1, Tail(txt))

\* the loop of Match over the offsets (trex.go:368-374)
RECURSIVE Scan(_, _)
Scan(re, b) ==
    IF Len(b) = 0 THEN "false"
    ELSE LET r == match(re, 0, b)
         IN  IF r # "false" THEN r ELSE Scan(re, Tail(b))

\* Match without the guard of lines 359-361
MatchUnguarded(re, b) ==
    IF NodeAt(re, 0).typ = "Begin" THEN match(re, 1, b) ELSE Scan(re, b)

\* Regexp.Match (trex.go:357-375)
Match(re, b) ==
    IF Len(b) = 0 THEN "false"
    ELSE IF NodeAt(re, 0).typ = "Begin" THEN match(re, 1, b)
    ELSE Scan(re, b)

(***************************************************************************)
(* The explored inputs: the patterns handed to Compile and the texts      *)
(* handed to Match.                                                        *)
(***************************************************************************)
SeqsUpTo(S, n) == UNION {[1..k -> S] : k \in 0..n}

Rep(c, k) == [x \in 1..k |-> c]

DigitRun(ds) == [x \in 1..Len(ds) |-> ch0 + ds[x]]

\* every short pattern of anchors, literals and the one-byte quantifiers
CoreBytes == {ch_a, ch_b, chCaret, chDollar, chStar, chQMark}

CorePatterns == SeqsUpTo(CoreBytes, MaxPatLen)

\* a class, negated or not, closed or not, of every short body
ClassBytes == {ch_a, ch_z, ch_d, chMinus, chBackslash, chRBracket}

ClassPatterns ==
    {hd \o body \o tl :
        hd \in {<<chLBracket>>, <<chLBracket, chCaret>>},
        body \in SeqsUpTo(ClassBytes, MaxClassLen),
        tl \in {<<>>, <<chRBracket>>}}

\* a literal followed by '{' and every short continuation
QuantBytes == {ch0, ch0 + 2, chComma, chRBrace, chQMark, ch_b}

QuantPatterns ==
    {<<ch_a, chLBrace>> \o body : body \in SeqsUpTo(QuantBytes, MaxQuantLen)}

\* digit runs around MaxQuant, 2^63 and 2^64
LongRuns ==
    {<<1, 0, 2, 4>>, <<1, 0, 2, 5>>,
     <<9, 2, 2, 3, 3, 7, 2, 0, 3, 6, 8, 5, 4, 7, 7, 5, 8, 0, 8>>,
     <<1, 8, 4, 4, 6, 7, 4, 4, 0, 7, 3, 7, 0, 9, 5, 5, 1, 6, 1, 5>>,
     <<1, 8, 4, 4, 6, 7, 4, 4, 0, 7, 3, 7, 0, 9, 5, 5, 1, 6, 1, 6>>,
     <<1, 8, 4, 4, 6, 7, 4, 4, 0, 7, 3, 7, 0, 9, 5, 5, 1, 6, 1, 8>>}

QuantTails ==
    {<<chRBrace>>, <<chRBrace, chQMark>>, <<chRBrace, ch_b>>,
     <<chRBrace, chQMark, ch_b>>, <<chComma, chRBrace>>,
     <<chComma, ch0 + 2, chRBrace>>}

LongPatterns ==
    {<<ch_a, chLBrace>> \o pre \o DigitRun(r) \o tl :
        pre \in {<<>>, <<ch0 + 2, chComma>>}, r \in LongRuns, tl \in QuantTails}

\* patterns that reach the capacity of the node array and of the buffer
NodeCapPatterns ==
    {Rep(ch_a, k) \o tl :
        k \in {MaxNodes - 2, MaxNodes - 1},
        tl \in SeqsUpTo({ch_a, chCaret, chStar}, 2)}

\* classes of BlockLen bytes each, which fill the buffer to its last bytes
BlockLen == (MaxBufLen \div 8) - 1

Block(k) == <<chLBracket>> \o Rep(ch_a, k) \o <<chRBracket>>

Blocks(m, k) ==
    [x \in 1..(m * (k + 2)) |-> Block(k)[((x - 1) % (k + 2)) + 1]]

BufCapPatterns ==
    {Blocks(7, BlockLen) \o Block(k) \o tl :
        k \in (BlockLen - 1)..(BlockLen + 1),
        tl \in {<<>>, <<chLBracket, chRBracket>>,
                <<chLBracket, ch_a, chRBracket>>,
                <<chLBracket, chRBracket, chLBracket, chRBracket>>}}

\* patterns of the tests and the documentation: [a\-\]z]+  .*  a{0,3}
SamplePatterns ==
    {<<chLBracket, ch_a, chBackslash, chMinus, chBackslash, chRBracket,
       ch_z, chRBracket, chPlus>>,
     <<chDot, chStar>>,
     <<ch_a, chLBrace, ch0, chComma, ch0 + 3, chRBrace>>}

Patterns ==
    CorePatterns \cup ClassPatterns \cup QuantPatterns \cup LongPatterns
        \cup NodeCapPatterns \cup BufCapPatterns \cup SamplePatterns

TextBytes == {ch_a, ch_b, chMinus}

Texts == SeqsUpTo(TextBytes, MaxTextLen)

(***************************************************************************)
(* The state machine: Compile(expr), a loop iteration at a time, then one *)
(* call of Match on the Regexp it returned.                               *)
(***************************************************************************)
ReOf(s) == [nodes |-> s.nodes, buf |-> s.buf]

Init ==
    /\ expr \in Patterns
    /\ cs = StartState
    /\ text = <<>>
    /\ result = "none"

\* trex.go:110-122
CompileEnter ==
    /\ cs.pc = "start"
    /\ cs' = Enter(expr, cs)
    /\ UNCHANGED <<expr, text, result>>

\* trex.go:123-343
CompileStep ==
    /\ cs.pc = "loop"
    /\ LoopCond(expr, cs)
    /\ cs' = Step(expr, cs)
    /\ UNCHANGED <<expr, text, result>>

\* trex.go:211-274
ClassStep ==
    /\ cs.pc = "class"
    /\ ClassCond(expr, cs)
    /\ cs' = ClassBody(expr, cs)
    /\ UNCHANGED <<expr, text, result>>

\* trex.go:276-281
ClassEnd ==
    /\ cs.pc = "class"
    /\ ~ClassCond(expr, cs)
    /\ cs' = ClassClose(expr, cs)
    /\ UNCHANGED <<expr, text, result>>

\* trex.go:344-346; re.nodes[j] is None already
CompileReturn ==
    /\ cs.pc = "loop"
    /\ ~LoopCond(expr, cs)
    /\ cs' = [cs EXCEPT !.pc = "ok"]
    /\ UNCHANGED <<expr, text, result>>

\* trex.go:357-375
MatchCall ==
    /\ cs.pc = "ok"
    /\ result = "none"
    /\ \E t \in Texts :
        /\ text' = t
        /\ result' = Match(ReOf(cs), t)
    /\ UNCHANGED <<expr, cs>>

Next ==
    \/ CompileEnter
    \/ CompileStep
    \/ ClassStep
    \/ ClassEnd
    \/ CompileReturn
    \/ MatchCall

Spec == Init /\ [][Next]_vars

\* the same machine on the patterns below the capacities
ShortPatterns ==
    CorePatterns \cup ClassPatterns \cup QuantPatterns \cup LongPatterns
        \cup SamplePatterns

InitShort ==
    /\ expr \in ShortPatterns
    /\ cs = StartState
    /\ text = <<>>
    /\ result = "none"

SpecShort == InitShort /\ [][Next]_vars

(***************************************************************************)
(* Properties.                                                             *)
(***************************************************************************)
Returned == cs.pc \in {"ok", "error", "panic"}

Compiled == cs.pc = "ok"

Matched == result # "none"

AtomTypes ==
    {"Char", "Dot", "Class", "NClass", "Digit", "NDigit", "Alpha", "NAlpha",
     "Space", "NSpace"}

QuantTypes ==
    {"QMark", "LQMark", "Star", "LStar", "Plus", "LPlus", "Quant", "LQuant"}

(***************************************************************************)
(* The reference semantics of a compiled node sequence: the offsets at     *)
(* which the nodes from p on, matched from offset k of the text s, can    *)
(* end.  An atom followed by a quantifier is repeated any number of times *)
(* inside its bounds; Begin and End hold at the two ends of the text.     *)
(***************************************************************************)
AtomRun(re, nd, s, k, c) ==
    /\ k + c <= Len(s)
    /\ \A x \in (k + 1)..(k + c) : matchOne(re, nd, s[x]) = "true"

RECURSIVE RefEnds(_, _, _, _)
RefEnds(re, p, s, k) ==
    LET nd == NodeAt(re, p)
        q == NodeAt(re, p + 1)
    IN  IF nd.typ = "None" THEN {k}
        ELSE IF nd.typ = "Begin"
             THEN (IF k = 0 THEN RefEnds(re, p + 1, s, k) ELSE {})
        ELSE IF nd.typ = "End"
             THEN (IF k = Len(s) THEN RefEnds(re, p + 1, s, k) ELSE {})
        ELSE IF q.typ \in QuantTypes
             THEN UNION {RefEnds(re, p + 2, s, k + c) :
                            c \in {c \in 0..(Len(s) - k) :
                                      /\ c >= QuantMin(q)
                                      /\ c <= QuantMax(q)
                                      /\ AtomRun(re, nd, s, k, c)}}
        ELSE IF AtomRun(re, nd, s, k, 1) THEN RefEnds(re, p + 1, s, k + 1)
        ELSE {}

RefMatch(re, s) == \E i \in 0..Len(s) : RefEnds(re, 0, s, i) # {}

\* C1: for a compiled pattern and a non-empty input, Match returns true
\* exactly when the node sequence matches somewhere in the input under the
\* reference semantics (the empty substring at the end of the input counts).
C1_MatchIsReference ==
    (Compiled /\ Matched /\ Len(text) > 0)
        => ((result = "true") <=> RefMatch(ReOf(cs), text))

\* C6: Match returns false for the empty input, whatever the pattern.
C6_EmptyInputIsFalse ==
    (Matched /\ Len(text) = 0) => result = "false"

\* an anchored pattern whose nodes match the empty text, matched on it
C6_Witness ==
    /\ Matched
    /\ Len(text) = 0
    /\ NodeAt(ReOf(cs), 0).typ = "Begin"
    /\ match(ReOf(cs), 1, <<>>) = "true"
    /\ result = "false"

\* C7: Match returns a boolean for every pattern Compile accepts: it never
\* reads the nodes, a class payload or the input outside their bounds.
C7_MatchNeverPanics == Matched => result \in {"true", "false"}

\* C8: compile never moves the write index past MaxBufLen and never writes
\* a byte, the zero that ends a class included, at an index >= MaxBufLen.
C8_NoWriteBeyondBuffer ==
    /\ cs.idx <= MaxBufLen
    /\ Len(cs.buf) <= MaxBufLen
    /\ ~(cs.pc = "panic" /\ cs.why = "buffer")

(***************************************************************************)
(* What a pattern says, read from its bytes: the token of the compiler    *)
(* that begins at the byte cs.tok, where compile stopped.                  *)
(***************************************************************************)
AtByte(c) == cs.tok < Len(expr) /\ E(expr, cs.tok) = c

\* no ']' follows the byte at q
NoCloser(e, q) == \A k \in (q + 1)..(Len(e) - 1) : E(e, k) # chRBracket

\* the errors the body of a class can produce before its end is looked for
ClassBodyErrors == {"DanglingEscape", "BadRange", "BufferOverflow"}

\* C2: a pattern whose '[' is never closed makes Compile return the
\* UnterminatedClass error (or the error of an earlier fault of the class
\* body); Compile does not crash.
C2_UnterminatedClassIsError ==
    (Returned /\ AtByte(chLBracket) /\ NoCloser(expr, cs.tok))
        => /\ cs.pc = "error"
           /\ cs.err \in {"UnterminatedClass"} \cup ClassBodyErrors

\* the index of the first byte from k on that is no digit (Len(e) if none)
DigitsEnd(e, k) ==
    LET S == {m \in k..(Len(e) - 1) : ~IsDigit(E(e, m))}
    IN  IF S = {} THEN Len(e) ELSE CHOOSE m \in S : \A x \in S : m <= x

\* the bytes from '{' at q read  digits+ '}'  or  digits+ ',' digits* '}'
WellFormedBrace(e, q) ==
    LET d1 == DigitsEnd(e, q + 1)
        d2 == DigitsEnd(e, d1 + 1)
    IN  /\ d1 > q + 1
        /\ d1 < Len(e)
        /\ \/ E(e, d1) = chRBrace
           \/ E(e, d1) = chComma /\ d2 < Len(e) /\ E(e, d2) = chRBrace

\* compile stopped at a '{' that follows a quantifiable atom
AtBrace == AtByte(chLBrace) /\ cs.err # "NonQuantifiable"

\* C3: a '{' quantifier with a non-digit where a digit is required, or cut
\* short by the end of the pattern, makes Compile return BadQuantifier;
\* Compile does not crash.
C3_MalformedQuantifierIsError ==
    (Returned /\ AtBrace /\ ~WellFormedBrace(expr, cs.tok))
        => cs.pc = "error" /\ cs.err = "BadQuantifier"

\* the number the digits e[from..to-1] write, capped at MaxQuant + 1
RECURSIVE Written(_, _, _, _)
Written(e, from, to, acc) ==
    IF from >= to THEN acc
    ELSE LET v == 10 * acc + (E(e, from) - ch0)
         IN  Written(e, from + 1, to,
                     IF v > MaxQuant THEN MaxQuant + 1 ELSE v)

QuantBoundsOk ==
    \A x \in 1..Len(cs.nodes) :
        cs.nodes[x].typ \in {"Quant", "LQuant"}
            => /\ 0 <= cs.nodes[x].mn[1]
               /\ cs.nodes[x].mn[1] <= cs.nodes[x].mn[2]
               /\ cs.nodes[x].mn[2] <= MaxQuant

WrittenOutOfBounds(e, q) ==
    LET d1 == DigitsEnd(e, q + 1)
        d2 == DigitsEnd(e, d1 + 1)
        m == Written(e, q + 1, d1, 0)
        x == Written(e, d1 + 1, d2, 0)
    IN  \/ m > MaxQuant
        \/ E(e, d1) = chComma /\ d2 > d1 + 1 /\ (x > MaxQuant \/ x < m)

\* C10: every Quant/LQuant node has 0 <= min <= max <= MaxQuant, and a
\* written m or n above MaxQuant, or n below m, makes Compile return
\* BadQuantifier, however long the digit run.
C10_QuantBounds ==
    /\ Compiled => QuantBoundsOk
    /\ (Returned /\ AtBrace /\ WellFormedBrace(expr, cs.tok)
            /\ WrittenOutOfBounds(expr, cs.tok))
        => cs.pc = "error" /\ cs.err = "BadQuantifier"

(***************************************************************************)
(* A class of literal bytes and escaped bytes only:  '[' u* ']'  where u   *)
(* is a byte other than '\', '-', ']' or is '\' X with X no meta letter.  *)
(***************************************************************************)
RECURSIVE LiteralUnits(_, _, _)
LiteralUnits(e, k, end) ==
    IF k >= end THEN k = end
    ELSE IF E(e, k) = chBackslash
         THEN k + 1 < end /\ ~isMeta(E(e, k + 1)) /\ LiteralUnits(e, k + 2, end)
    ELSE E(e, k) \notin {chMinus, chRBracket} /\ LiteralUnits(e, k + 1, end)

RECURSIVE ListedBytes(_, _, _)
ListedBytes(e, k, end) ==
    IF k >= end THEN {}
    ELSE IF E(e, k) = chBackslash
         THEN {E(e, k + 1)} \cup ListedBytes(e, k + 2, end)
    ELSE {E(e, k)} \cup ListedBytes(e, k + 1, end)

IsEscapedLiteralClass(e) ==
    /\ Len(e) >= 4
    /\ E(e, 0) = chLBracket
    /\ E(e, 1) # chCaret
    /\ E(e, Len(e) - 1) = chRBracket
    /\ \E k \in 1..(Len(e) - 2) : E(e, k) = chBackslash
    /\ LiteralUnits(e, 1, Len(e) - 1)

\* C5: in a class, '\' X with X none of d D w W s S stands for the byte X:
\* a class of literal and escaped bytes matches exactly the bytes listed.
C5_EscapedByteIsItself ==
    (Compiled /\ Matched /\ Len(text) = 1 /\ IsEscapedLiteralClass(expr))
        => ((result = "true")
               <=> text[1] \in ListedBytes(expr, 1, Len(expr) - 1))

(***************************************************************************)
(* The lazy form of a pattern: every quantifier token that has no '?'     *)
(* after it gets one.  ClassEndFrom is the index of the ']' that closes a *)
(* class whose body begins at k, Len(e) if there is none.                  *)
(***************************************************************************)
RECURSIVE ClassEndFrom(_, _)
ClassEndFrom(e, k) ==
    IF k >= Len(e) THEN Len(e)
    ELSE IF E(e, k) = chRBracket THEN k
    ELSE IF E(e, k) = chBackslash THEN ClassEndFrom(e, k + 2)
    ELSE ClassEndFrom(e, k + 1)

BraceEnd(e, q) ==
    LET S == {m \in (q + 1)..(Len(e) - 1) : E(e, m) = chRBrace}
    IN  IF S = {} THEN Len(e) ELSE CHOOSE m \in S : \A x \in S : m <= x

Bytes(e, from, to) ==
    SubSeq(e, from + 1, IF to < Len(e) THEN to + 1 ELSE Len(e))

RECURSIVE Lazify(_, _)
Lazify(e, k) ==
    LET n == Len(e)
        c == E(e, k)
        lazy == k + 1 < n /\ E(e, k + 1) = chQMark
    IN  IF k >= n THEN <<>>
        ELSE IF c = chBackslash THEN Bytes(e, k, k + 1) \o Lazify(e, k + 2)
        ELSE IF c = chLBracket THEN
            LET b == IF k + 1 < n /\ E(e, k + 1) = chCaret THEN k + 2
                     ELSE k + 1
                r == ClassEndFrom(e, b)
            IN  Bytes(e, k, r) \o Lazify(e, r + 1)
        ELSE IF c \in {chStar, chPlus, chQMark} THEN
            <<c, chQMark>> \o Lazify(e, IF lazy THEN k + 2 ELSE k + 1)
        ELSE IF c = chLBrace THEN
            LET r == BraceEnd(e, k)
            IN  IF r >= n THEN Bytes(e, k, n)
                ELSE Bytes(e, k, r) \o <<chQMark>>
                        \o Lazify(e, IF r + 1 < n /\ E(e, r + 1) = chQMark
                                     THEN r + 2 ELSE r + 1)
        ELSE <<c>> \o Lazify(e, k + 1)

\* C4: a compiled pattern and its lazy form give the same answer on every
\* input.
C4_GreedyLazyAgree ==
    (Compiled /\ Matched)
        => LET lz == compile(Lazify(expr, 0))
           IN  lz.pc = "ok" /\ Match(ReOf(lz), text) = result

(***************************************************************************)
(* Misplaced quantifiers, read from the bytes of the pattern.  Before the *)
(* first '\', '[' or '{' every byte is a token of its own, but a '?' that *)
(* makes the quantifier before it lazy.  There, a quantifier is misplaced *)
(* at k when it stands at the start or after an anchor, when it follows a *)
(* quantifier byte without being its lazy mark, or when it is the third   *)
(* quantifier byte in a row.                                               *)
(***************************************************************************)
QBytes == {chStar, chPlus, chQMark}

FlatBefore(e, k) ==
    \A m \in 0..(k - 1) : E(e, m) \notin {chBackslash, chLBracket, chLBrace}

MisplacedAt(e, k) ==
    /\ FlatBefore(e, k)
    /\ \/ /\ E(e, k) \in QBytes \cup {chLBrace}
          /\ (k = 0 \/ E(e, k - 1) \in {chCaret, chDollar})
       \/ /\ E(e, k) \in {chStar, chPlus, chLBrace}
          /\ k >= 1
          /\ E(e, k - 1) \in QBytes
       \/ /\ E(e, k) = chQMark
          /\ k >= 2
          /\ E(e, k - 1) \in QBytes
          /\ E(e, k - 2) \in QBytes

Misplaced(e) == {k \in 0..(Len(e) - 1) : MisplacedAt(e, k)}

FirstMisplaced(e) == CHOOSE k \in Misplaced(e) : \A m \in Misplaced(e) : k <= m

\* the nodes of the tokens before the byte at k
NodesBefore(e, k) ==
    Cardinality({m \in 0..(k - 1) :
                    ~(E(e, m) = chQMark /\ m >= 1 /\ E(e, m - 1) \in QBytes)})

\* every quantifier node follows a quantifiable atom
QuantifiersFollowAtoms ==
    \A x \in 1..Len(cs.nodes) :
        cs.nodes[x].typ \in QuantTypes
            => x >= 2 /\ cs.nodes[x - 1].typ \in AtomTypes

Rejected(kind) == cs.pc = "error" /\ cs.err = kind

\* compile stopped at a quantifier that the node before it cannot take
StoppedAtLoneQuantifier ==
    /\ cs.pc \in {"error", "panic"}
    /\ cs.tok < Len(expr)
    /\ E(expr, cs.tok) \in QBytes \cup {chLBrace}
    /\ (cs.nodes = <<>> \/ cs.nodes[Len(cs.nodes)].typ \notin AtomTypes)

====
